---- MODULE Spec2Model ----
(***************************************************************************)
(* The Yieldlab bidder adapter (adapters/yieldlab/yieldlab.go) and the     *)
(* Prebid Cache client (prebid_cache_client), as state machines.           *)
(*                                                                         *)
(* Conventions                                                             *)
(*   - a Go pointer / optional value is a sequence of length 0 (nil) or 1; *)
(*   - a Go map[string]string and a url.Values are functions whose domain  *)
(*     is the set of keys present;                                         *)
(*   - a json.RawMessage is modelled by what json.Unmarshal makes of it:   *)
(*     whether it decodes, and the decoded value;                          *)
(*   - the ad size, which the code splits and parses, is a sequence of     *)
(*     one-character strings; other strings are TLA+ strings;              *)
(*   - sequences are 1-based: Go index i is index i + 1 here;              *)
(*   - a Go run-time panic (index out of range, nil dereference) is the    *)
(*     control state "panic", from which nothing is returned.              *)
(***************************************************************************)
EXTENDS Integers, Sequences, FiniteSets, TLC

VARIABLES
    a,               \* the YieldlabAdapter: endpoint, cacheBuster, getWeek
    request,         \* the openrtb.BidRequest given to MakeRequests and MakeBids
    response,        \* the adapters.ResponseData given to MakeBids
    pc,              \* position of the adapter run
    mergedParams,    \* makeRequest: the result of mergeParams (nil until computed)
    adapterRequests, \* MakeRequests: the returned []*adapters.RequestData
    reqErrs,         \* MakeRequests: the returned []error
    bids,            \* MakeBids: the decoded []*bidResponse
    requests,        \* MakeBids: the result of parseRequest (nil until called)
    i,               \* MakeBids: index of the range loop
    bidderResponse,  \* MakeBids: the adapters.BidderResponse under construction
    mbResult,        \* MakeBids: the returned (*BidderResponse, []error)
    values,          \* PutJson: the values argument
    cacheCall,       \* PutJson: what the cache service call produces
    uuidsToReturn,   \* PutJson: the slice under construction
    currentIndex,    \* PutJson: index of the ForEach callback
    uuids,           \* PutJson: the returned slice (nil until returned)
    pcCache          \* position of the PutJson run

adapterVars == <<a, request, response, pc, mergedParams, adapterRequests, reqErrs,
                 bids, requests, i, bidderResponse, mbResult>>
cacheVars == <<values, cacheCall, uuidsToReturn, currentIndex, uuids, pcCache>>
vars == <<adapterVars, cacheVars>>

(***************************************************************************)
(* Bounds of the model.                                                    *)
(***************************************************************************)
MaxImps == 2
MaxEntries == 3
MaxLen == 3
MaxValues == 2
MaxResponses == 3

(***************************************************************************)
(* Optional values and maps.                                               *)
(***************************************************************************)
Nil == <<>>
Some(v) == <<v>>

EmptyMap == [k \in {} |-> ""]
\* url.Values.Set / map assignment m[k] = v
Set(m, k, v) == [x \in DOMAIN m \cup {k} |-> IF x = k THEN v ELSE m[x]]

Digit(d) ==
    CASE d = 0 -> "0" [] d = 1 -> "1" [] d = 2 -> "2" [] d = 3 -> "3" [] d = 4 -> "4"
      [] d = 5 -> "5" [] d = 6 -> "6" [] d = 7 -> "7" [] d = 8 -> "8" [] d = 9 -> "9"

\* strconv.FormatUint(n, 10) and strconv.Itoa for n >= 0: the canonical decimal
RECURSIVE FormatUint(_)
FormatUint(n) == IF n < 10 THEN Digit(n) ELSE FormatUint(n \div 10) \o Digit(n % 10)

Itoa(n) == IF n < 0 THEN "-" \o FormatUint(0 - n) ELSE FormatUint(n)

(***************************************************************************)
(* Program constants that yieldlab.go uses and another file declares.      *)
(***************************************************************************)
adSlotIdSeparator == ","
adsizeSeparator == "x"

(***************************************************************************)
(* MakeRequests: parseRequest, mergeParams, getGDPR, makeEndpointURL.      *)
(***************************************************************************)
ErrBadInput == "BadInput"
ErrEndpoint == "failed to parse yieldlab endpoint"
ErrExtRegs == "failed to parse ExtRegs in Yieldlab GDPR check"
ErrExtUser == "failed to parse ExtUser in Yieldlab GDPR check"

\* parseRequest from index k on, params being the line-items parsed so far
RECURSIVE parseFrom(_, _, _)
parseFrom(imps, k, params) ==
    IF k > Len(imps) THEN [params |-> params, err |-> Nil]
    ELSE IF ~imps[k].Ext.envelope THEN [params |-> <<>>, err |-> Some(ErrBadInput)]
    ELSE IF imps[k].Ext.Bidder = Nil THEN [params |-> <<>>, err |-> Some(ErrBadInput)]
    ELSE parseFrom(imps, k + 1, Append(params, imps[k].Ext.Bidder[1]))

parseRequest(req) == parseFrom(req.Imp, 1, <<>>)

\* strings.Join(elems, sep)
RECURSIVE Join(_, _)
Join(elems, sep) ==
    IF Len(elems) = 0 THEN ""
    ELSE IF Len(elems) = 1 THEN elems[1]
    ELSE Join(SubSeq(elems, 1, Len(elems) - 1), sep) \o sep \o elems[Len(elems)]

\* rangeTargeting with the assignment guarded: a key already merged keeps its first value
rangeTargetingKeepFirst(targeting, p) ==
    [k \in DOMAIN targeting \cup DOMAIN p.Targeting |->
        IF k \in DOMAIN targeting THEN targeting[k] ELSE p.Targeting[k]]

\* for k, v := range p.Targeting { targeting[k] = v }
rangeTargeting(targeting, p) ==
    [k \in DOMAIN targeting \cup DOMAIN p.Targeting |->
        IF k \in DOMAIN p.Targeting THEN p.Targeting[k] ELSE targeting[k]]

\* the state of mergeParams' loop after the first n line-items
RECURSIVE mergeLoop(_, _)
mergeLoop(params, n) ==
    IF n = 0 THEN [adSlotIds |-> <<>>, targeting |-> EmptyMap]
    ELSE LET prev == mergeLoop(params, n - 1)
         IN [adSlotIds |-> Append(prev.adSlotIds, params[n].AdslotID),
             targeting |-> rangeTargeting(prev.targeting, params[n])]

mergeParams(params) ==
    LET acc == mergeLoop(params, Len(params))
    IN [AdslotID |-> Join(acc.adSlotIds, adSlotIdSeparator),
        SupplyID |-> "",
        ExtId |-> "",
        Targeting |-> acc.targeting]

\* gdprOf without the range test: the flag is not restricted to 0 and 1
gdprOfAnyValue(extRegs) == IF extRegs.GDPR # Nil THEN Itoa(extRegs.GDPR[1]) ELSE ""

\* the GDPR flag getGDPR reads from a decoded ExtRegs
gdprOf(extRegs) ==
    IF extRegs.GDPR # Nil /\ (extRegs.GDPR[1] = 0 \/ extRegs.GDPR[1] = 1)
    THEN Itoa(extRegs.GDPR[1])
    ELSE ""

getGDPR(req) ==
    IF req.Regs # Nil /\ ~req.Regs[1].Ext.valid
    THEN [gdpr |-> "", consent |-> "", err |-> Some(ErrExtRegs)]
    ELSE LET gdpr == IF req.Regs # Nil THEN gdprOf(req.Regs[1].Ext) ELSE ""
         IN IF req.User # Nil /\ req.User[1].Ext # Nil
            THEN IF ~req.User[1].Ext[1].valid
                 THEN [gdpr |-> "", consent |-> "", err |-> Some(ErrExtUser)]
                 ELSE [gdpr |-> gdpr, consent |-> req.User[1].Ext[1].Consent, err |-> Nil]
            ELSE [gdpr |-> gdpr, consent |-> "", err |-> Nil]

\* the order in which url.Values.Encode writes the targeting keys (sorted)
KeyOrder == <<"k1", "k2">>

RECURSIVE encodeFrom(_, _)
encodeFrom(m, k) ==
    IF k > Len(KeyOrder) THEN ""
    ELSE LET rest == encodeFrom(m, k + 1)
         IN IF KeyOrder[k] \notin DOMAIN m THEN rest
            ELSE KeyOrder[k] \o "=" \o m[KeyOrder[k]] \o (IF rest = "" THEN "" ELSE "&" \o rest)

makeTargetingValues(params) == encodeFrom(params.Targeting, 1)

\* path.Join(uri.Path, params.AdslotID)
pathJoin(p, elem) == IF elem = "" THEN p ELSE p \o "/" \o elem

\* the device part of the query, lines 68-80
withDevice(q, req) ==
    IF req.Device = Nil THEN q
    ELSE LET d == req.Device[1]
             q1 == Set(Set(q, "yl_rtb_ifa", d.IFA), "yl_rtb_devicetype", Itoa(d.DeviceType))
             q2 == IF d.ConnectionType # Nil
                   THEN Set(q1, "yl_rtb_connectiontype", Itoa(d.ConnectionType[1]))
                   ELSE q1
         IN IF d.Geo # Nil
            THEN Set(Set(q2, "lat", Itoa(d.Geo[1].Lat)), "lon", Itoa(d.Geo[1].Lon))
            ELSE q2

\* the app part of the query, lines 82-85
withApp(q, req) ==
    IF req.App = Nil THEN q
    ELSE Set(Set(q, "pubappname", req.App[1].Name), "pubbundlename", req.App[1].Bundle)

makeEndpointURL(adapter, req, params) ==
    IF ~adapter.endpoint.parses THEN [uri |-> Nil, err |-> Some(ErrEndpoint)]
    ELSE LET q0 == Set(Set(Set(Set(adapter.endpoint.Query, "content", "json"),
                                   "pvid", "true"),
                               "ts", adapter.cacheBuster),
                           "t", makeTargetingValues(params))
             q1 == IF req.User # Nil /\ req.User[1].BuyerUID # ""
                   THEN Set(q0, "ids", "ylid:" \o req.User[1].BuyerUID)
                   ELSE q0
             q2 == withApp(withDevice(q1, req), req)
             g == getGDPR(req)
         IN IF g.err # Nil THEN [uri |-> Nil, err |-> g.err]
            ELSE LET q == IF g.gdpr # "" /\ g.consent # ""
                          THEN Set(Set(q2, "gdpr", g.gdpr), "consent", g.consent)
                          ELSE q2
                 IN [uri |-> Some([Path |-> pathJoin(adapter.endpoint.Path, params.AdslotID),
                                   Query |-> q]),
                     err |-> Nil]

\* the headers of the outbound request, lines 149-160
makeHeaders(req) ==
    LET h0 == Set(EmptyMap, "Accept", "application/json")
        h1 == IF req.Site # Nil THEN Set(h0, "Referer", req.Site[1].Page) ELSE h0
        h2 == IF req.Device # Nil
              THEN Set(Set(h1, "User-Agent", req.Device[1].UA),
                       "X-Forwarded-For", req.Device[1].IP)
              ELSE h1
    IN IF req.User # Nil THEN Set(h2, "Cookie", "id=" \o req.User[1].BuyerUID) ELSE h2

makeRequest(adapter, req) ==
    LET parsed == parseRequest(req)
    IN IF parsed.err # Nil THEN [req |-> Nil, errs |-> <<parsed.err[1]>>]
       ELSE LET bidURL == makeEndpointURL(adapter, req, mergeParams(parsed.params))
            IN IF bidURL.err # Nil THEN [req |-> Nil, errs |-> <<bidURL.err[1]>>]
               ELSE [req |-> Some([Method |-> "GET",
                                   Uri |-> bidURL.uri[1],
                                   Headers |-> makeHeaders(req)]),
                     errs |-> <<>>]

MakeRequests ==
    /\ pc = "MakeRequests"
    /\ LET out == makeRequest(a, request)
           parsed == parseRequest(request)
       IN /\ adapterRequests' = IF out.req # Nil THEN <<out.req[1]>> ELSE <<>>
          /\ reqErrs' = out.errs
          /\ mergedParams' = IF parsed.err = Nil THEN Some(mergeParams(parsed.params)) ELSE Nil
    /\ pc' = "MakeBids"
    /\ UNCHANGED <<a, request, response, bids, requests, i, bidderResponse, mbResult>>
    /\ UNCHANGED cacheVars

(***************************************************************************)
(* MakeBids: splitSize, findBidReq, makeAdSourceURL, the range loop.       *)
(***************************************************************************)
ErrStatus == "failed to resolve bids from yieldlab response: Unexpected response code"
ErrDecode == "failed to parse bids response from yieldlab"
ErrAdsize == "failed to parse yieldlab adsize"
ErrNoRequest == "failed to find yieldlab request for adslotID"

Digits == {"0", "1", "2", "3", "4", "5", "6", "7", "8", "9"}

DigitVal(c) ==
    CASE c = "0" -> 0 [] c = "1" -> 1 [] c = "2" -> 2 [] c = "3" -> 3 [] c = "4" -> 4
      [] c = "5" -> 5 [] c = "6" -> 6 [] c = "7" -> 7 [] c = "8" -> 8 [] c = "9" -> 9

\* strings.Split(s, adsizeSeparator) from index k on, cur being the part under way
RECURSIVE splitFrom(_, _, _)
splitFrom(s, k, cur) ==
    IF k > Len(s) THEN <<cur>>
    ELSE IF s[k] = adsizeSeparator THEN <<cur>> \o splitFrom(s, k + 1, <<>>)
    ELSE splitFrom(s, k + 1, Append(cur, s[k]))

Split(s) == splitFrom(s, 1, <<>>)

\* the value of a digit string, most significant digit first
RECURSIVE decimal(_)
decimal(s) ==
    IF Len(s) = 0 THEN 0
    ELSE decimal(SubSeq(s, 1, Len(s) - 1)) * 10 + DigitVal(s[Len(s)])

\* strconv.ParseUint(s, 10, 64): a syntax error for an empty string or a character
\* that is no digit. Its range error needs a value of 2^64 or more, that is at
\* least 20 digits: the ad sizes drawn here have at most MaxLen characters.
ParseUint(s) ==
    IF Len(s) = 0 \/ (\E k \in 1..Len(s) : s[k] \notin Digits) THEN [val |-> 0, err |-> TRUE]
    ELSE [val |-> decimal(s), err |-> FALSE]

\* splitSize with a strict length test: a size that does not split in two is an error too
splitSizeStrict(size) ==
    LET sizeParts == Split(size)
    IN IF Len(sizeParts) # 2 THEN [width |-> 0, height |-> 0, err |-> Some(ErrAdsize)]
       ELSE LET width == ParseUint(sizeParts[1])
                height == ParseUint(sizeParts[2])
            IN IF width.err \/ height.err
               THEN [width |-> 0, height |-> 0, err |-> Some(ErrAdsize)]
               ELSE [width |-> width.val, height |-> height.val, err |-> Nil]

splitSize(size) ==
    LET sizeParts == Split(size)
    IN IF Len(sizeParts) # 2 THEN [width |-> 0, height |-> 0, err |-> Nil]
       ELSE LET width == ParseUint(sizeParts[1])
                height == ParseUint(sizeParts[2])
            IN IF width.err THEN [width |-> 0, height |-> 0, err |-> Some(ErrAdsize)]
               ELSE IF height.err THEN [width |-> 0, height |-> 0, err |-> Some(ErrAdsize)]
               ELSE [width |-> width.val, height |-> height.val, err |-> Nil]

\* findBidReq from index k on
RECURSIVE findFrom(_, _, _)
findFrom(slotIdStr, params, k) ==
    IF k > Len(params) THEN Nil
    ELSE IF params[k].AdslotID = slotIdStr THEN Some(params[k])
    ELSE findFrom(slotIdStr, params, k + 1)

findBidReq(adslotID, params) == findFrom(FormatUint(adslotID), params, 1)

\* the ad-source URL: the three values formatted into adSourceURL and the query
makeAdSourceURL(adapter, req, ext, res) ==
    LET v0 == Set(Set(Set(EmptyMap, "ts", adapter.cacheBuster), "id", ext.ExtId),
                  "pvid", res.Pvid)
        v1 == IF req.User # Nil THEN Set(v0, "ids", "ylid:" \o req.User[1].BuyerUID) ELSE v0
        g == getGDPR(req)
        val == IF g.err = Nil /\ g.gdpr # "" /\ g.consent # ""
               THEN Set(Set(v1, "gdpr", g.gdpr), "consent", g.consent)
               ELSE v1
    IN [AdslotID |-> ext.AdslotID, SupplyID |-> ext.SupplyID, Adsize |-> res.Adsize,
        Query |-> val]

makeBannerAdSource(adapter, req, ext, res) ==
    [Format |-> "adSourceBanner", URL |-> makeAdSourceURL(adapter, req, ext, res)]

makeCreativeID(adapter, req, bid) ==
    [AdslotID |-> req.AdslotID, Pid |-> bid.Pid, Week |-> adapter.getWeek]

\* bidTypeOf with the tests swapped: the banner spec is looked at first
bidTypeOfBannerFirst(imp) ==
    IF imp.Banner # Nil THEN "banner"
    ELSE IF imp.Video # Nil THEN "video"
    ELSE ""

\* the media type of lines 260-270: "" when the entry is skipped
bidTypeOf(imp) ==
    IF imp.Video # Nil THEN "video"
    ELSE IF imp.Banner # Nil THEN "banner"
    ELSE ""

\* checkResponse without the status test: the status code is not looked at
checkResponseAnyStatus(resp) ==
    IF ~resp.Body.valid THEN [bids |-> <<>>, err |-> Some(ErrDecode)]
    ELSE [bids |-> resp.Body.bids, err |-> Nil]

\* lines 213-224: the status check and the decoding of the body
checkResponse(resp) ==
    IF resp.StatusCode # 200 THEN [bids |-> <<>>, err |-> Some(ErrStatus)]
    ELSE IF ~resp.Body.valid THEN [bids |-> <<>>, err |-> Some(ErrDecode)]
    ELSE [bids |-> resp.Body.bids, err |-> Nil]

\* the openrtb.Bid of lines 250-266 for entry bid, line-item imp and parameters req
makeTypedBid(adapter, request0, imp, req, bid, size) ==
    LET bidType == bidTypeOf(imp)
    IN [BidType |-> bidType,
        Bid |-> [ID |-> FormatUint(bid.ID),
                 Price |-> [minor |-> bid.Price, per |-> 100],
                 ImpID |-> imp.ID,
                 CrID |-> makeCreativeID(adapter, req, bid),
                 DealID |-> FormatUint(bid.Pid),
                 W |-> size.width,
                 H |-> size.height,
                 NURL |-> IF bidType = "video"
                          THEN Some(makeAdSourceURL(adapter, request0, req, bid)) ELSE Nil,
                 AdM |-> IF bidType = "banner"
                         THEN Some(makeBannerAdSource(adapter, request0, req, bid)) ELSE Nil]]

MakeBidsBegin ==
    /\ pc = "MakeBids"
    /\ LET decoded == checkResponse(response)
           parsed == parseRequest(request)
       IN IF decoded.err # Nil
          THEN /\ mbResult' = [resp |-> Nil, errs |-> <<decoded.err[1]>>]
               /\ pc' = "done"
               /\ UNCHANGED <<bids, requests, bidderResponse, i>>
          ELSE /\ bids' = decoded.bids
               /\ requests' = Some(parsed.params)
               /\ IF parsed.err # Nil
                  THEN /\ mbResult' = [resp |-> Nil, errs |-> <<parsed.err[1]>>]
                       /\ pc' = "done"
                       /\ UNCHANGED <<bidderResponse, i>>
                  ELSE /\ bidderResponse' = [Currency |-> "EUR", Bids |-> <<>>]
                       /\ i' = 1
                       /\ pc' = "loop"
                       /\ UNCHANGED mbResult
    /\ UNCHANGED <<a, request, response, mergedParams, adapterRequests, reqErrs>>
    /\ UNCHANGED cacheVars

\* one iteration of the range loop, lines 236-276
MakeBidsIter ==
    /\ pc = "loop"
    /\ i <= Len(bids)
    /\ IF bids[i] = Nil
       THEN \* bid.Adsize on a nil *bidResponse
            /\ pc' = "panic"
            /\ UNCHANGED <<i, bidderResponse, mbResult>>
       ELSE LET bid == bids[i][1]
                size == splitSize(bid.Adsize)
                req == findBidReq(bid.ID, requests[1])
            IN IF size.err # Nil
               THEN /\ mbResult' = [resp |-> Nil, errs |-> <<size.err[1]>>]
                    /\ pc' = "done"
                    /\ UNCHANGED <<i, bidderResponse>>
               ELSE IF req = Nil
               THEN /\ mbResult' = [resp |-> Nil, errs |-> <<ErrNoRequest>>]
                    /\ pc' = "done"
                    /\ UNCHANGED <<i, bidderResponse>>
               ELSE IF i > Len(request.Imp)
               THEN \* internalRequest.Imp[i]: index out of range
                    /\ pc' = "panic"
                    /\ UNCHANGED <<i, bidderResponse, mbResult>>
               ELSE LET imp == request.Imp[i]
                        typed == makeTypedBid(a, request, imp, req[1], bid, size)
                    IN /\ bidderResponse' =
                              IF typed.BidType = "" THEN bidderResponse
                              ELSE [bidderResponse EXCEPT !.Bids = Append(@, typed)]
                       /\ i' = i + 1
                       /\ pc' = "loop"
                       /\ UNCHANGED mbResult
    /\ UNCHANGED <<a, request, response, mergedParams, adapterRequests, reqErrs,
                   bids, requests>>
    /\ UNCHANGED cacheVars

MakeBidsReturn ==
    /\ pc = "loop"
    /\ i > Len(bids)
    /\ mbResult' = [resp |-> Some(bidderResponse), errs |-> <<>>]
    /\ pc' = "done"
    /\ UNCHANGED <<a, request, response, mergedParams, adapterRequests, reqErrs,
                   bids, requests, i, bidderResponse>>
    /\ UNCHANGED cacheVars

(***************************************************************************)
(* The Prebid Cache client: PutJson and encodeValues.                      *)
(***************************************************************************)
\* encodeValues: json.Marshal of a json.RawMessage fails when it is not valid JSON
encodeValues(vals) ==
    IF \E k \in 1..Len(vals) : ~vals[k].valid
    THEN [postBody |-> <<>>, err |-> TRUE]
    ELSE [postBody |-> [k \in 1..Len(vals) |-> [type |-> "json", value |-> vals[k].raw]],
          err |-> FALSE]

\* whether PutJson returns before the ForEach, lines 51-86
returnsEarly(vals, call) ==
    \/ encodeValues(vals).err
    \/ call.newRequestErr
    \/ call.doErr
    \/ call.StatusCode # 200
    \/ ~call.validJSON
    \/ call.responses = Nil

PutJsonBegin ==
    /\ pcCache = "PutJson"
    /\ IF Len(values) < 1
       THEN /\ uuids' = <<>>
            /\ pcCache' = "done"
            /\ UNCHANGED <<uuidsToReturn, currentIndex>>
       ELSE /\ uuidsToReturn' = [k \in 1..Len(values) |-> ""]
            /\ IF returnsEarly(values, cacheCall)
               THEN /\ uuids' = [k \in 1..Len(values) |-> ""]
                    /\ pcCache' = "done"
                    /\ UNCHANGED currentIndex
               ELSE /\ currentIndex' = 0
                    /\ pcCache' = "ForEach"
                    /\ UNCHANGED uuids
    /\ UNCHANGED <<values, cacheCall>>
    /\ UNCHANGED adapterVars

\* one call of the ForEach callback, lines 89-99; currentIndex is the Go index
PutJsonForEach ==
    /\ pcCache = "ForEach"
    /\ currentIndex < Len(cacheCall.responses[1])
    /\ LET id == cacheCall.responses[1][currentIndex + 1].uuid
       IN IF id = Nil
          THEN /\ currentIndex' = currentIndex + 1
               /\ UNCHANGED <<uuidsToReturn, pcCache>>
          ELSE IF currentIndex >= Len(uuidsToReturn)
          THEN \* uuidsToReturn[currentIndex]: index out of range
               /\ pcCache' = "panic"
               /\ UNCHANGED <<uuidsToReturn, currentIndex>>
          ELSE /\ uuidsToReturn' = [uuidsToReturn EXCEPT ![currentIndex + 1] = id[1]]
               /\ currentIndex' = currentIndex + 1
               /\ UNCHANGED pcCache
    /\ UNCHANGED <<values, cacheCall, uuids>>
    /\ UNCHANGED adapterVars

PutJsonReturn ==
    /\ pcCache = "ForEach"
    /\ currentIndex >= Len(cacheCall.responses[1])
    /\ uuids' = uuidsToReturn
    /\ pcCache' = "done"
    /\ UNCHANGED <<values, cacheCall, uuidsToReturn, currentIndex>>
    /\ UNCHANGED adapterVars

(***************************************************************************)
(* Inputs.                                                                 *)
(***************************************************************************)
SeqsUpTo(S, n) == UNION {[1..k -> S] : k \in 0..n}
SeqsFrom1(S, n) == UNION {[1..k -> S] : k \in 1..n}

Keys == {"k1", "k2"}
Vals == {"a", "b"}
TargetingMaps == UNION {[D -> Vals] : D \in SUBSET Keys}

Params(slot, targeting) ==
    [AdslotID |-> slot, SupplyID |-> "sup", ExtId |-> "ext-" \o slot, Targeting |-> targeting]
ExtOk(p) == [envelope |-> TRUE, Bidder |-> Some(p)]
ExtBad == [envelope |-> FALSE, Bidder |-> Nil]

\* line-items get distinct IDs, in request order
WithIDs(shapes) ==
    [k \in 1..Len(shapes) |->
        [ID |-> "imp-" \o Itoa(k), Banner |-> shapes[k].Banner, Video |-> shapes[k].Video,
         Ext |-> shapes[k].Ext]]

PlainRequest(imps) ==
    [Imp |-> imps, Regs |-> Nil, User |-> Nil, Device |-> Nil, App |-> Nil, Site |-> Nil]

Adapter(parses) ==
    [endpoint |-> [parses |-> parses, Path |-> "/yp", Query |-> EmptyMap],
     cacheBuster |-> "1478", getWeek |-> "45"]

SizeOk == <<"1", "x", "2">>
Entry(id, adsize) ==
    Some([ID |-> id, Price |-> 150, Advertiser |-> "adv", Adsize |-> adsize, Pid |-> 7,
          Did |-> 3, Pvid |-> "pv"])
Ok200(entries) == [StatusCode |-> 200, Body |-> [valid |-> TRUE, bids |-> entries]]

\* Spec: line-items and response entries in every combination
BidImpShapes ==
    [Banner : {Nil, Some("banner")}, Video : {Nil, Some("video")},
     Ext : {ExtOk(Params("1", EmptyMap)), ExtOk(Params("2", EmptyMap))}]
    \cup {[Banner |-> Some("banner"), Video |-> Nil, Ext |-> ExtBad]}
BidRequests == {PlainRequest(WithIDs(sh)) : sh \in SeqsUpTo(BidImpShapes, MaxImps)}
BidEntries == {Entry(id, SizeOk) : id \in {1, 2, 9}}
BidResponses ==
    {Ok200(es) : es \in SeqsUpTo(BidEntries, MaxEntries)}
    \cup {Ok200(<<Nil>>), Ok200(<<Entry(1, SizeOk), Nil>>)}
    \cup {[StatusCode |-> 200, Body |-> [valid |-> FALSE, bids |-> <<>>]]}
    \cup {[StatusCode |-> sc, Body |-> [valid |-> v, bids |-> IF v THEN <<Entry(1, SizeOk)>> ELSE <<>>]] :
            sc \in {204, 500}, v \in BOOLEAN}

\* SpecMerge: line-items with every targeting map
MergeImpShapes ==
    {[Banner |-> Some("banner"), Video |-> Nil, Ext |-> ExtOk(Params(slot, t))] :
        slot \in {"1", "2"}, t \in TargetingMaps}
MergeRequests == {PlainRequest(WithIDs(sh)) : sh \in SeqsUpTo(MergeImpShapes, MaxImps)}
MergeResponses == {Ok200(<<Entry(1, SizeOk)>>)}

\* SpecRegs: every regulatory and user extension
RegsSet ==
    {Nil, Some([Ext |-> [valid |-> FALSE, GDPR |-> Nil]])}
    \cup {Some([Ext |-> [valid |-> TRUE, GDPR |-> g]]) : g \in {Nil, Some(0), Some(1), Some(2)}}
UserExts ==
    {Nil, Some([valid |-> FALSE, Consent |-> ""])}
    \cup {Some([valid |-> TRUE, Consent |-> c]) : c \in {"", "abc"}}
UserSet == {Nil} \cup {Some([BuyerUID |-> b, Ext |-> e]) : b \in {"", "u1"}, e \in UserExts}
Device(c, g) ==
    Some([IFA |-> "ifa", DeviceType |-> 4, ConnectionType |-> c, Geo |-> g,
          UA |-> "ua", IP |-> "192.0.2.1"])
DeviceSet == {Nil, Device(Nil, Nil), Device(Some(6), Some([Lat |-> 51, Lon |-> 9]))}
AppSet == {Nil, Some([Name |-> "app", Bundle |-> "bundle"])}
SiteSet == {Nil, Some([Page |-> "page"])}
RegsImpShapes ==
    {[Banner |-> Some("banner"), Video |-> Nil, Ext |-> ExtOk(Params("1", EmptyMap))],
     [Banner |-> Nil, Video |-> Some("video"), Ext |-> ExtOk(Params("1", EmptyMap))]}
RegsRequests ==
    {[Imp |-> WithIDs(sh), Regs |-> r, User |-> u, Device |-> d, App |-> ap, Site |-> s] :
        sh \in SeqsFrom1(RegsImpShapes, MaxImps), r \in RegsSet, u \in UserSet,
        d \in DeviceSet, ap \in AppSet, s \in SiteSet}
RegsResponses == {Ok200([k \in 1..n |-> Entry(1, SizeOk)]) : n \in 0..MaxEntries}

\* SpecSize: one entry of the response carries any ad size of up to MaxLen characters
Chars == {"1", "2", "x", "a"}
Sizes == SeqsUpTo(Chars, MaxLen)
SizeRequests ==
    {PlainRequest(WithIDs([k \in 1..n |->
        [Banner |-> Some("banner"), Video |-> Nil, Ext |-> ExtOk(Params("1", EmptyMap))]])) :
        n \in 1..MaxImps}
SizeResponses ==
    {Ok200([k \in 1..n |-> Entry(1, IF k = at THEN s ELSE SizeOk)]) :
        n \in 1..MaxEntries, at \in 1..MaxEntries, s \in Sizes}

\* SpecCache: the values and the outcome of the cache service call
CacheValues == SeqsUpTo([valid : BOOLEAN, raw : {"{}"}], MaxValues)
ResponseElems == {[uuid |-> Nil], [uuid |-> Some("u1")], [uuid |-> Some("u2")]}
CacheCall(nre, de, sc, vj, rs) ==
    [newRequestErr |-> nre, doErr |-> de, StatusCode |-> sc, validJSON |-> vj, responses |-> rs]
CacheCalls ==
    {CacheCall(TRUE, FALSE, 0, FALSE, Nil), CacheCall(FALSE, TRUE, 0, FALSE, Nil),
     CacheCall(FALSE, FALSE, 500, TRUE, Some(<<[uuid |-> Some("u1")]>>)),
     CacheCall(FALSE, FALSE, 200, FALSE, Nil), CacheCall(FALSE, FALSE, 200, TRUE, Nil)}
    \cup {CacheCall(FALSE, FALSE, 200, TRUE, Some(rs)) : rs \in SeqsUpTo(ResponseElems, MaxResponses)}

(***************************************************************************)
(* Specifications.                                                         *)
(***************************************************************************)
CacheIdle ==
    /\ values = <<>>
    /\ cacheCall = CacheCall(FALSE, FALSE, 200, TRUE, Some(<<>>))
    /\ uuidsToReturn = <<>>
    /\ currentIndex = 0
    /\ uuids = <<>>
    /\ pcCache = "idle"

AdapterStart ==
    /\ pc = "MakeRequests"
    /\ mergedParams = Nil
    /\ adapterRequests = <<>>
    /\ reqErrs = <<>>
    /\ bids = <<>>
    /\ requests = Nil
    /\ i = 0
    /\ bidderResponse = [Currency |-> "", Bids |-> <<>>]
    /\ mbResult = [resp |-> Nil, errs |-> <<>>]

Init ==
    /\ a = Adapter(TRUE)
    /\ request \in BidRequests
    /\ response \in BidResponses
    /\ AdapterStart
    /\ CacheIdle

InitMerge ==
    /\ a = Adapter(TRUE)
    /\ request \in MergeRequests
    /\ response \in MergeResponses
    /\ AdapterStart
    /\ CacheIdle

InitRegs ==
    /\ a \in {Adapter(TRUE), Adapter(FALSE)}
    /\ request \in RegsRequests
    /\ response \in RegsResponses
    /\ AdapterStart
    /\ CacheIdle

InitSize ==
    /\ a = Adapter(TRUE)
    /\ request \in SizeRequests
    /\ response \in SizeResponses
    /\ AdapterStart
    /\ CacheIdle

InitCache ==
    /\ a = Adapter(TRUE)
    /\ request = PlainRequest(<<>>)
    /\ response = Ok200(<<>>)
    /\ AdapterStart
    /\ values \in CacheValues
    /\ cacheCall \in CacheCalls
    /\ uuidsToReturn = <<>>
    /\ currentIndex = 0
    /\ uuids = <<>>
    /\ pcCache = "PutJson"

Next ==
    \/ MakeRequests
    \/ MakeBidsBegin
    \/ MakeBidsIter
    \/ MakeBidsReturn

NextCache ==
    \/ PutJsonBegin
    \/ PutJsonForEach
    \/ PutJsonReturn

Spec == Init /\ [][Next]_vars
SpecMerge == InitMerge /\ [][Next]_vars
SpecRegs == InitRegs /\ [][Next]_vars
SpecSize == InitSize /\ [][Next]_vars
SpecCache == InitCache /\ [][NextCache]_vars

(***************************************************************************)
(* Properties.                                                             *)
(***************************************************************************)
\* the targeting map of line-item k of the request
TargetingOf(k) == request.Imp[k].Ext.Bidder[1].Targeting

\* C1: for a non-empty list of line-items, the merged targeting map has exactly
\* the keys of all line-items' maps, and each key has the value of the last
\* line-item that contains it.
C1_MergeUnion ==
    (mergedParams # Nil /\ Len(request.Imp) >= 1) =>
        LET n == Len(request.Imp)
            m == mergedParams[1].Targeting
        IN /\ DOMAIN m = UNION {DOMAIN TargetingOf(k) : k \in 1..n}
           /\ \A key \in DOMAIN m :
                \E k \in 1..n :
                    /\ key \in DOMAIN TargetingOf(k)
                    /\ \A j \in (k + 1)..n : key \notin DOMAIN TargetingOf(j)
                    /\ m[key] = TargetingOf(k)[key]

\* C1 witness: two line-items give k1 different values, only the first has k2
C1_Witness ==
    /\ mergedParams # Nil
    /\ Len(request.Imp) = 2
    /\ DOMAIN TargetingOf(1) = {"k1", "k2"}
    /\ DOMAIN TargetingOf(2) = {"k1"}
    /\ TargetingOf(1)["k1"] = "a"
    /\ TargetingOf(2)["k1"] = "b"
    /\ mergedParams[1].Targeting["k1"] = "b"
    /\ mergedParams[1].AdslotID = "1,2"

\* the GDPR flag the request carries, when it is 0 or 1
FlagOf(req) ==
    IF req.Regs # Nil /\ req.Regs[1].Ext.valid /\ req.Regs[1].Ext.GDPR # Nil
       /\ req.Regs[1].Ext.GDPR[1] \in {0, 1}
    THEN Some(req.Regs[1].Ext.GDPR[1])
    ELSE Nil

\* the consent string the request carries
ConsentOf(req) ==
    IF req.User # Nil /\ req.User[1].Ext # Nil /\ req.User[1].Ext[1].valid
    THEN req.User[1].Ext[1].Consent
    ELSE ""

\* the query of the ad-source URL of a bid
AdSourceQuery(b) == IF b.Bid.NURL # Nil THEN b.Bid.NURL[1].Query ELSE b.Bid.AdM[1].URL.Query

BothOrNothing(q) ==
    /\ ("gdpr" \in DOMAIN q) <=> ("consent" \in DOMAIN q)
    /\ ("gdpr" \in DOMAIN q) <=> (FlagOf(request) # Nil /\ ConsentOf(request) # "")
    /\ ("gdpr" \in DOMAIN q) =>
            /\ q["gdpr"] = (IF FlagOf(request)[1] = 0 THEN "0" ELSE "1")
            /\ q["consent"] = ConsentOf(request)

\* C2: in the endpoint URL and in every ad-source URL, gdpr and consent are both
\* present or both absent, and they are present exactly when the request carries
\* a GDPR flag in {0,1} and a non-empty consent string.
C2_BothOrNothing ==
    /\ \A k \in 1..Len(adapterRequests) : BothOrNothing(adapterRequests[k].Uri.Query)
    /\ \A k \in 1..Len(bidderResponse.Bids) : BothOrNothing(AdSourceQuery(bidderResponse.Bids[k]))

\* C2 witness: both URLs carry both parameters, for an accepted flag and a consent
C2_Witness ==
    /\ pc = "done"
    /\ Len(adapterRequests) = 1
    /\ "gdpr" \in DOMAIN adapterRequests[1].Uri.Query
    /\ "consent" \in DOMAIN adapterRequests[1].Uri.Query
    /\ Len(bidderResponse.Bids) >= 1
    /\ AdSourceQuery(bidderResponse.Bids[1])["gdpr"] = "1"
    /\ AdSourceQuery(bidderResponse.Bids[1])["consent"] = "abc"

\* the decoded body holds entries only (no JSON null among them)
EntriesOnly == \A k \in 1..Len(response.Body.bids) : response.Body.bids[k] # Nil

\* the slot IDs of the request's line-items
SlotIDs ==
    {request.Imp[k].Ext.Bidder[1].AdslotID :
        k \in {j \in 1..Len(request.Imp) : request.Imp[j].Ext.Bidder # Nil}}

\* C3: a status-200 response holding an entry whose id is no line-item's slot ID
\* makes MakeBids return zero bids and exactly one error, wherever the entry
\* sits and however many other entries match.
C3_UnmatchedEntryFails ==
    (/\ response.StatusCode = 200
     /\ response.Body.valid
     /\ EntriesOnly
     /\ \E k \in 1..Len(response.Body.bids) :
            FormatUint(response.Body.bids[k][1].ID) \notin SlotIDs)
    => /\ pc # "panic"
       /\ pc = "done" => (mbResult.resp = Nil /\ Len(mbResult.errs) = 1)

\* C4: when the status code is not 200 or the body does not decode, MakeBids
\* returns no bidder response and exactly one error, and never parses the
\* request's line-items.
C4_UpstreamFailure ==
    (response.StatusCode # 200 \/ ~response.Body.valid) =>
        /\ pc \in {"MakeRequests", "MakeBids", "done"}
        /\ requests = Nil
        /\ bidderResponse.Bids = <<>>
        /\ pc = "done" =>
            /\ mbResult.resp = Nil
            /\ Len(mbResult.errs) = 1
            /\ mbResult.errs[1] \in {ErrStatus, ErrDecode}

\* C4 witness: status 500 with a body whose entry matches the first line-item
C4_Witness ==
    /\ pc = "done"
    /\ response.StatusCode = 500
    /\ response.Body.valid
    /\ Len(response.Body.bids) = 1
    /\ Len(request.Imp) >= 1
    /\ request.Imp[1].Ext.Bidder # Nil
    /\ request.Imp[1].Ext.Bidder[1].AdslotID = "1"
    /\ mbResult.errs = <<ErrStatus>>

\* what PutJson has at position k when it returns normally
ExpectedUuid(k) ==
    IF returnsEarly(values, cacheCall) THEN ""
    ELSE IF k > Len(cacheCall.responses[1]) THEN ""
    ELSE IF cacheCall.responses[1][k].uuid = Nil THEN ""
    ELSE cacheCall.responses[1][k].uuid[1]

\* C5: for a non-empty list of values and every outcome of the cache call,
\* PutJson returns, without crashing, as many elements as there are values,
\* position k holding the uuid of response element k if it is a string and ""
\* otherwise.
C5_PutJsonTotal ==
    Len(values) >= 1 =>
        /\ pcCache # "panic"
        /\ pcCache = "done" =>
            /\ Len(uuids) = Len(values)
            /\ \A k \in 1..Len(values) : uuids[k] = ExpectedUuid(k)

\* the number of separators in an ad size
NumSeparators(s) == Cardinality({k \in 1..Len(s) : s[k] = "x"})

\* the ad size has the shape <width>x<height>: one separator, digits on both sides
MatchesShape(s) ==
    \E k \in 2..(Len(s) - 1) :
        /\ s[k] = "x"
        /\ \A j \in (1..Len(s)) \ {k} : s[j] \in Digits

\* MakeBids ended on the entry at index k with the ad size error
FailedOnSize(k) ==
    pc = "done" /\ i = k /\ mbResult = [resp |-> Nil, errs |-> <<ErrAdsize>>]

\* the entry at index k was passed by the loop
Passed(k) == pc \in {"loop", "done", "panic"} /\ i > k

\* every bid made for the entry at index k (its ImpID is that of line-item k) has no size
ZeroSized(k) ==
    \A n \in 1..Len(bidderResponse.Bids) :
        bidderResponse.Bids[n].Bid.ImpID = request.Imp[k].ID =>
            (bidderResponse.Bids[n].Bid.W = 0 /\ bidderResponse.Bids[n].Bid.H = 0)

\* C6 as stated: an entry whose ad size does not have the shape <width>x<height>
\* is given width 0 and height 0 and never makes MakeBids fail the response.
C6_MalformedSizeIsZero ==
    \A k \in 1..Len(bids) :
        ~MatchesShape(bids[k][1].Adsize) => (~FailedOnSize(k) /\ (Passed(k) => ZeroSized(k)))

\* C6 amended: an ad size with no separator or more than one is given width 0
\* and height 0 without an error; an ad size with exactly one separator and a
\* side that is empty or not a decimal number makes MakeBids return zero bids
\* and the one ad size error.
C6_SplitSizePolicy ==
    \A k \in 1..Len(bids) :
        LET s == bids[k][1].Adsize
        IN /\ NumSeparators(s) # 1 => (~FailedOnSize(k) /\ (Passed(k) => ZeroSized(k)))
           /\ (NumSeparators(s) = 1 /\ ~MatchesShape(s)) =>
                /\ ~Passed(k)
                /\ (pc = "done" /\ i = k) => FailedOnSize(k)
           /\ MatchesShape(s) => ~FailedOnSize(k)

\* C6 witness: the second entry's size has no separator, its bid has no size
C6_Witness ==
    /\ pc = "done"
    /\ Len(bids) = 2
    /\ bids[2][1].Adsize = <<"1", "2">>
    /\ mbResult.errs = <<>>
    /\ Len(bidderResponse.Bids) = 2
    /\ bidderResponse.Bids[2].Bid.W = 0
    /\ bidderResponse.Bids[1].Bid.W = 1

\* C7: the ImpID of every bid is the ID of a line-item whose slot ID is the one
\* used for the bid's creative ID, that is the line-item the entry matched.
C7_ImpIDOfMatchedLineItem ==
    \A n \in 1..Len(bidderResponse.Bids) :
        \E k \in 1..Len(request.Imp) :
            /\ request.Imp[k].Ext.Bidder # Nil
            /\ request.Imp[k].Ext.Bidder[1].AdslotID = bidderResponse.Bids[n].Bid.CrID.AdslotID
            /\ request.Imp[k].ID = bidderResponse.Bids[n].Bid.ImpID

\* the loop is about to make a bid of the entry at index i and line-item i
Processable ==
    /\ pc = "loop"
    /\ i <= Len(bids)
    /\ bids[i] # Nil
    /\ i <= Len(request.Imp)
    /\ splitSize(bids[i][1].Adsize).err = Nil
    /\ FormatUint(bids[i][1].ID) \in SlotIDs

\* the step appends one bid of the given media type
Appends(type) ==
    /\ Len(bidderResponse'.Bids) = Len(bidderResponse.Bids) + 1
    /\ SubSeq(bidderResponse'.Bids, 1, Len(bidderResponse.Bids)) = bidderResponse.Bids
    /\ bidderResponse'.Bids[Len(bidderResponse'.Bids)].BidType = type
    /\ bidderResponse'.Bids[Len(bidderResponse'.Bids)].Bid.ID = FormatUint(bids[i][1].ID)

\* the step goes on to the next entry without an error
GoesOn == pc' = "loop" /\ i' = i + 1 /\ mbResult' = mbResult

\* C8 as stated: the bid of the entry at index i is a banner if line-item i has
\* a banner spec, a video if it has a video spec, and the entry is skipped
\* without an error if it has neither.
C8_BannerIfBannerVideoIfVideo ==
    [][Processable =>
        /\ GoesOn
        /\ request.Imp[i].Banner # Nil => Appends("banner")
        /\ request.Imp[i].Video # Nil => Appends("video")
        /\ (request.Imp[i].Banner = Nil /\ request.Imp[i].Video = Nil) =>
                bidderResponse' = bidderResponse]_vars

\* C8 amended: the bid of the entry at index i is a video if line-item i has a
\* video spec, otherwise a banner if it has a banner spec; with neither the
\* entry is skipped without a bid or an error, and the loop goes on.
C8_MediaTypeByIndex ==
    [][Processable =>
        /\ GoesOn
        /\ request.Imp[i].Video # Nil => Appends("video")
        /\ (request.Imp[i].Video = Nil /\ request.Imp[i].Banner # Nil) => Appends("banner")
        /\ (request.Imp[i].Banner = Nil /\ request.Imp[i].Video = Nil) =>
                bidderResponse' = bidderResponse]_vars

\* C8 witness: the first line-item has neither spec and its entry is skipped, the
\* second has both and its entry becomes a video bid
C8_Witness ==
    /\ pc = "done"
    /\ mbResult.errs = <<>>
    /\ Len(bids) = 2
    /\ Len(request.Imp) = 2
    /\ request.Imp[1].Banner = Nil /\ request.Imp[1].Video = Nil
    /\ request.Imp[2].Banner # Nil /\ request.Imp[2].Video # Nil
    /\ Len(bidderResponse.Bids) = 1
    /\ bidderResponse.Bids[1].BidType = "video"
    /\ bidderResponse.Bids[1].Bid.ImpID = "imp-2"

\* getGDPR fails on the request
ExtractionFails(req) ==
    \/ req.Regs # Nil /\ ~req.Regs[1].Ext.valid
    \/ req.User # Nil /\ req.User[1].Ext # Nil /\ ~req.User[1].Ext[1].valid

\* C9: when the regulatory or user extension cannot be parsed, MakeRequests
\* returns no request and an error, while MakeBids, for a status-200 response
\* whose entries all match line-items, returns its bids with no error, no
\* ad-source URL carrying gdpr or consent.
C9_Asymmetry ==
    (/\ ExtractionFails(request)
     /\ response.StatusCode = 200
     /\ response.Body.valid
     /\ EntriesOnly
     /\ \A k \in 1..Len(response.Body.bids) :
            FormatUint(response.Body.bids[k][1].ID) \in SlotIDs)
    => /\ pc # "MakeRequests" => (adapterRequests = <<>> /\ Len(reqErrs) = 1)
       /\ pc # "panic"
       /\ pc = "done" => (mbResult.resp # Nil /\ mbResult.errs = <<>>)
       /\ \A n \in 1..Len(bidderResponse.Bids) :
            /\ "gdpr" \notin DOMAIN AdSourceQuery(bidderResponse.Bids[n])
            /\ "consent" \notin DOMAIN AdSourceQuery(bidderResponse.Bids[n])

\* C10: for a status-200 response that decodes as an array of entries, MakeBids
\* returns bids or errors and never reads a line-item past the end of the
\* request's list.
C10_MakeBidsTotal ==
    (response.StatusCode = 200 /\ response.Body.valid /\ EntriesOnly) => pc # "panic"

====
